---- MODULE Spec2Model ----
(***************************************************************************)
(* State-machine model of the tagfarm linkfarm engine                      *)
(* (src/tagfarm/linkfarm.py, class LinkFarmManager) and of the `build`     *)
(* command that drives it (src/tagfarm/cli.py).                            *)
(*                                                                         *)
(* A string is a sequence of one-character strings, a path is a sequence   *)
(* of components (each a string), the root directory is the empty path.    *)
(* The filesystem is a function from the paths that exist to their entry:  *)
(* a directory, a regular file, or a symbolic link with its stored target. *)
(***************************************************************************)
EXTENDS Integers, Sequences, FiniteSets, TLC

VARIABLES
    fs,       \* the filesystem: path -> entry
    engine,   \* the LinkFarmManager object: constructed, dry_run, use_title
    pc,       \* position of the caller: idle / ready / called / rerun / build / done / failed
    queue,    \* the items `build` has still to process
    last      \* record of the last call: its arguments, the filesystem before it, its result

vars == <<fs, engine, pc, queue, last>>

(***************************************************************************)
(* Bounds                                                                  *)
(***************************************************************************)
MaxScenes == 2      \* longest scene list handed to one create_*_links call

(***************************************************************************)
(* Strings and paths                                                       *)
(***************************************************************************)
SetMin(S) == CHOOSE x \in S : \A y \in S : x <= y
SetMax(S) == CHOOSE x \in S : \A y \in S : x >= y

Digits == <<"0", "1", "2", "3", "4", "5", "6", "7", "8", "9">>

\* str(n) for n >= 0, as the f-string of the collision loop formats the counter
RECURSIVE IntToStr(_)
IntToStr(n) ==
    IF n < 10 THEN <<Digits[n + 1]>>
    ELSE IntToStr(n \div 10) \o <<Digits[(n % 10) + 1]>>

Parent(p) == SubSeq(p, 1, Len(p) - 1)
PathName(p) == IF Len(p) = 0 THEN <<>> ELSE p[Len(p)]

\* the components of a name, cut at each "/"
RECURSIVE PathParts(_)
PathParts(name) ==
    LET slashes == {i \in 1..Len(name) : name[i] = "/"}
    IN  IF slashes = {} THEN <<name>>
        ELSE <<SubSeq(name, 1, SetMin(slashes) - 1)>>
             \o PathParts(SubSeq(name, SetMin(slashes) + 1, Len(name)))

\* the path the operating system reaches from dir through the components:
\* empty and "." components stay, ".." goes to the parent
RECURSIVE Descend(_, _)
Descend(dir, parts) ==
    IF parts = <<>> THEN dir
    ELSE Descend(IF Head(parts) \in {<<>>, <<".">>} THEN dir
                 ELSE IF Head(parts) = <<".", ".">> THEN Parent(dir)
                 ELSE Append(dir, Head(parts)),
                 Tail(parts))

\* dir / name: a name that starts with "/" is taken from the root
Join(dir, name) ==
    Descend(IF name # <<>> /\ name[1] = "/" THEN <<>> ELSE dir, PathParts(name))

\* pathlib: the index of the last dot of a name when it separates a suffix
\* (0 < i < len - 1 in 0-based terms), else 0
SuffixDot(name) ==
    LET dots == {i \in 1..Len(name) : name[i] = "."}
    IN  IF dots = {} THEN 0
        ELSE LET i == SetMax(dots)
             IN  IF i > 1 /\ i < Len(name) THEN i ELSE 0

PathSuffix(name) ==
    IF SuffixDot(name) = 0 THEN <<>> ELSE SubSeq(name, SuffixDot(name), Len(name))

PathStem(name) ==
    IF SuffixDot(name) = 0 THEN name ELSE SubSeq(name, 1, SuffixDot(name) - 1)

(***************************************************************************)
(* Filesystem primitives (pathlib / os semantics)                          *)
(***************************************************************************)
DirEntry == [kind |-> "dir", target |-> <<>>]
FileEntry == [kind |-> "file", target |-> <<>>]
LinkEntry(t) == [kind |-> "link", target |-> t]

\* stat(): the kind of the entry a path resolves to, following symbolic links;
\* "none" when the path or a link's target is missing or the links loop
RECURSIVE Resolve(_, _, _)
Resolve(f, p, seen) ==
    IF p = <<>> THEN "dir"
    ELSE IF p \notin DOMAIN f \/ p \in seen THEN "none"
    ELSE IF f[p].kind = "link" THEN Resolve(f, f[p].target, seen \cup {p})
    ELSE f[p].kind

Exists(f, p) == Resolve(f, p, {}) # "none"
IsDir(f, p) == Resolve(f, p, {}) = "dir"
IsSymlink(f, p) == p \in DOMAIN f /\ f[p].kind = "link"
Readlink(f, p) == f[p].target

\* the paths below a directory, at any depth
Under(f, dir) == {p \in DOMAIN f : Len(p) > Len(dir) /\ SubSeq(p, 1, Len(dir)) = dir}

Without(f, p) == [q \in DOMAIN f \ {p} |-> f[q]]
With(f, p, e) == [q \in DOMAIN f \cup {p} |-> IF q = p THEN e ELSE f[q]]

\* Path.mkdir(parents=True, exist_ok=True)
RECURSIVE Mkdir(_, _)
Mkdir(f, p) ==
    IF p = <<>> THEN [fs |-> f, raised |-> FALSE]
    ELSE IF p \in DOMAIN f THEN [fs |-> f, raised |-> ~IsDir(f, p)]
    ELSE LET up == Mkdir(f, Parent(p))
         IN  IF up.raised THEN [fs |-> f, raised |-> TRUE]
             ELSE [fs |-> With(up.fs, p, DirEntry), raised |-> FALSE]

\* Path.unlink(): OSError when the path is missing or a directory, or when the
\* operating system refuses (fault)
Unlink(f, p, fault) ==
    IF fault = "unlink" \/ p \notin DOMAIN f \/ f[p].kind = "dir"
    THEN [fs |-> f, err |-> TRUE]
    ELSE [fs |-> Without(f, p), err |-> FALSE]

\* Path.symlink_to(target): OSError when the path exists, its directory does
\* not, or the operating system refuses (fault)
SymlinkTo(f, p, target, fault) ==
    IF fault = "symlink" \/ p \in DOMAIN f \/ ~IsDir(f, Parent(p))
    THEN [fs |-> f, err |-> TRUE]
    ELSE [fs |-> With(f, p, LinkEntry(target)), err |-> FALSE]

(***************************************************************************)
(* LinkFarmManager                                                         *)
(***************************************************************************)
FarmPath == << <<"f", "a", "r", "m">> >>
TagsSub == <<"t", "a", "g", "s">>
PerformersSub == <<"p", "e", "r", "f", "o", "r", "m", "e", "r", "s">>
Unnamed == <<"u", "n", "n", "a", "m", "e", "d">>
ScenePrefix == <<"s", "c", "e", "n", "e", "_">>

ProblematicChars == {"/", "\\", ":", "*", "?", "\"", "<", ">", "|"}
StripChars == {".", " "}

\* mutant of init_manager: the farm directory is made in dry_run too
init_manager_always(f, dry_run) == Mkdir(f, FarmPath)

\* __init__: the farm directory is made unless dry_run
init_manager(f, dry_run) ==
    IF dry_run THEN [fs |-> f, raised |-> FALSE] ELSE Mkdir(f, FarmPath)

\* mutant of sanitize_name: the path separator is left in the name
sanitize_name_keep_separator(name) ==
    LET replaced == [i \in 1..Len(name) |->
                        IF name[i] \in ProblematicChars \ {"/"} THEN "_" ELSE name[i]]
        keep == {i \in 1..Len(replaced) : replaced[i] \notin StripChars}
        stripped == IF keep = {} THEN <<>>
                    ELSE SubSeq(replaced, SetMin(keep), SetMax(keep))
    IN  IF stripped = <<>> THEN Unnamed ELSE stripped

\* mutant of sanitize_name: one character is stripped at each end, not all
sanitize_name_strip_one(name) ==
    LET replaced == [i \in 1..Len(name) |->
                        IF name[i] \in ProblematicChars THEN "_" ELSE name[i]]
        from == IF Len(replaced) > 0 /\ replaced[1] \in StripChars THEN 2 ELSE 1
        to == IF Len(replaced) >= from /\ replaced[Len(replaced)] \in StripChars
              THEN Len(replaced) - 1 ELSE Len(replaced)
        stripped == SubSeq(replaced, from, to)
    IN  IF stripped = <<>> THEN Unnamed ELSE stripped

\* _sanitize_name: problematic characters become "_", dots and blanks are
\* stripped from both ends, an empty result becomes "unnamed"
sanitize_name(name) ==
    LET replaced == [i \in 1..Len(name) |->
                        IF name[i] \in ProblematicChars THEN "_" ELSE name[i]]
        keep == {i \in 1..Len(replaced) : replaced[i] \notin StripChars}
        stripped == IF keep = {} THEN <<>>
                    ELSE SubSeq(replaced, SetMin(keep), SetMax(keep))
    IN  IF stripped = <<>> THEN Unnamed ELSE stripped

get_link_name(use_title, scene) ==
    IF use_title /\ scene.title # <<>> THEN sanitize_name(scene.title)
    ELSE IF scene.files # <<>> THEN PathStem(scene.files[1].basename)
    ELSE ScenePrefix \o scene.id

get_file_extension(scene) ==
    IF scene.files # <<>> THEN PathSuffix(PathName(scene.files[1].path)) ELSE <<>>

Outcome(f, ret, outcome, raised) ==
    [fs |-> f, ret |-> ret, outcome |-> outcome, raised |-> raised]

\* mutant of create_symlink: whatever holds the link path is removed to make room
create_symlink_clobber(f, dry_run, source_path, link_path, fault) ==
    IF ~Exists(f, source_path) THEN Outcome(f, FALSE, "warning", FALSE)
    ELSE IF dry_run THEN Outcome(f, TRUE, "planned", FALSE)
    ELSE IF IsSymlink(f, link_path) /\ Readlink(f, link_path) = source_path
    THEN Outcome(f, TRUE, "already", FALSE)
    ELSE LET overwrite == link_path \in DOMAIN f
             u == IF overwrite THEN [fs |-> Without(f, link_path), err |-> fault = "unlink"]
                  ELSE [fs |-> f, err |-> FALSE]
             s == SymlinkTo(u.fs, link_path, source_path, fault)
         IN  IF u.err THEN Outcome(f, FALSE, "raised", TRUE)
             ELSE IF s.err THEN Outcome(u.fs, FALSE, "error_os", FALSE)
             ELSE Outcome(s.fs, TRUE, IF overwrite THEN "overwritten" ELSE "created", FALSE)

\* mutant of create_symlink: the dry_run check comes first, before the source check
create_symlink_dry_first(f, dry_run, source_path, link_path, fault) ==
    IF dry_run THEN Outcome(f, TRUE, "planned", FALSE)
    ELSE IF ~Exists(f, source_path) THEN Outcome(f, FALSE, "warning", FALSE)
    ELSE IF (Exists(f, link_path) \/ IsSymlink(f, link_path)) /\ ~IsSymlink(f, link_path)
    THEN Outcome(f, FALSE, "error_file", FALSE)
    ELSE IF IsSymlink(f, link_path) /\ Readlink(f, link_path) = source_path
    THEN Outcome(f, TRUE, "already", FALSE)
    ELSE LET overwrite == IsSymlink(f, link_path)
             u == IF overwrite THEN Unlink(f, link_path, fault)
                  ELSE [fs |-> f, err |-> FALSE]
             s == SymlinkTo(u.fs, link_path, source_path, fault)
         IN  IF u.err THEN Outcome(f, FALSE, "raised", TRUE)
             ELSE IF s.err THEN Outcome(u.fs, FALSE, "error_os", FALSE)
             ELSE Outcome(s.fs, TRUE, IF overwrite THEN "overwritten" ELSE "created", FALSE)

\* _create_symlink: ret is the returned boolean, raised an OSError that escapes
create_symlink(f, dry_run, source_path, link_path, fault) ==
    IF ~Exists(f, source_path) THEN Outcome(f, FALSE, "warning", FALSE)
    ELSE IF dry_run THEN Outcome(f, TRUE, "planned", FALSE)
    ELSE IF (Exists(f, link_path) \/ IsSymlink(f, link_path)) /\ ~IsSymlink(f, link_path)
    THEN Outcome(f, FALSE, "error_file", FALSE)
    ELSE IF IsSymlink(f, link_path) /\ Readlink(f, link_path) = source_path
    THEN Outcome(f, TRUE, "already", FALSE)
    ELSE LET overwrite == IsSymlink(f, link_path)
             u == IF overwrite THEN Unlink(f, link_path, fault)
                  ELSE [fs |-> f, err |-> FALSE]
             s == SymlinkTo(u.fs, link_path, source_path, fault)
         IN  IF u.err THEN Outcome(f, FALSE, "raised", TRUE)
             ELSE IF s.err THEN Outcome(u.fs, FALSE, "error_os", FALSE)
             ELSE Outcome(s.fs, TRUE, IF overwrite THEN "overwritten" ELSE "created", FALSE)

\* mutant of collision_loop: a taken name is a collision whatever it points at
RECURSIVE collision_loop_by_existence(_, _, _, _, _, _, _, _)
collision_loop_by_existence(f, dry_run, dir, link_name, extension, source_path, link_path, counter) ==
    IF ~dry_run /\ Exists(f, link_path)
    THEN collision_loop_by_existence(
             f, dry_run, dir, link_name, extension, source_path,
             Join(dir, link_name \o <<"_">> \o IntToStr(counter) \o extension), counter + 1)
    ELSE [path |-> link_path, raised |-> FALSE]

\* mutant of collision_loop: the counter is incremented before the name is made
RECURSIVE collision_loop_counter_first(_, _, _, _, _, _, _, _)
collision_loop_counter_first(f, dry_run, dir, link_name, extension, source_path, link_path, counter) ==
    IF ~dry_run /\ Exists(f, link_path)
    THEN IF ~IsSymlink(f, link_path) THEN [path |-> link_path, raised |-> TRUE]
         ELSE IF Readlink(f, link_path) # source_path
         THEN collision_loop_counter_first(
                  f, dry_run, dir, link_name, extension, source_path,
                  Join(dir, link_name \o <<"_">> \o IntToStr(counter + 1) \o extension),
                  counter + 1)
         ELSE [path |-> link_path, raised |-> FALSE]
    ELSE [path |-> link_path, raised |-> FALSE]

\* the collision loop: the path the scene is placed at; raised when readlink()
\* is applied to an entry that is not a symbolic link
RECURSIVE collision_loop(_, _, _, _, _, _, _, _)
collision_loop(f, dry_run, dir, link_name, extension, source_path, link_path, counter) ==
    IF ~dry_run /\ Exists(f, link_path)
    THEN IF ~IsSymlink(f, link_path) THEN [path |-> link_path, raised |-> TRUE]
         ELSE IF Readlink(f, link_path) # source_path
         THEN collision_loop(f, dry_run, dir, link_name, extension, source_path,
                             Join(dir, link_name \o <<"_">> \o IntToStr(counter) \o extension),
                             counter + 1)
         ELSE [path |-> link_path, raised |-> FALSE]
    ELSE [path |-> link_path, raised |-> FALSE]

Placed(i, source, link, outcome) ==
    [scene |-> i, source |-> source, link |-> link, outcome |-> outcome]

\* mutant of place_scenes: a scene without files ends the loop
RECURSIVE place_scenes_stop_at_no_files(_, _, _, _, _, _, _)
place_scenes_stop_at_no_files(acc, dry_run, use_title, dir, scenes, fault, i) ==
    IF i > Len(scenes) \/ acc.raised THEN acc
    ELSE IF scenes[i].files = <<>>
    THEN acc
    ELSE LET source_path == scenes[i].files[1].path
             link_name == get_link_name(use_title, scenes[i])
             extension == get_file_extension(scenes[i])
             loop == collision_loop(acc.fs, dry_run, dir, link_name, extension, source_path,
                                    Join(dir, link_name \o extension), 1)
             made == create_symlink(acc.fs, dry_run, source_path, loop.path, fault)
             next ==
                 IF loop.raised
                 THEN [acc EXCEPT !.raised = TRUE,
                                  !.report = Append(@, Placed(i, source_path, loop.path, "raised"))]
                 ELSE [fs |-> made.fs,
                       raised |-> made.raised,
                       created_count |-> acc.created_count + (IF made.ret THEN 1 ELSE 0),
                       report |-> Append(acc.report,
                                         Placed(i, source_path, loop.path, made.outcome))]
         IN  place_scenes_stop_at_no_files(next, dry_run, use_title, dir, scenes, fault, i + 1)

\* the `for scene in scenes` loop from scene i on; acc is the run so far
RECURSIVE place_scenes(_, _, _, _, _, _, _)
place_scenes(acc, dry_run, use_title, dir, scenes, fault, i) ==
    IF i > Len(scenes) \/ acc.raised THEN acc
    ELSE IF scenes[i].files = <<>>
    THEN place_scenes(acc, dry_run, use_title, dir, scenes, fault, i + 1)
    ELSE LET source_path == scenes[i].files[1].path
             link_name == get_link_name(use_title, scenes[i])
             extension == get_file_extension(scenes[i])
             loop == collision_loop(acc.fs, dry_run, dir, link_name, extension, source_path,
                                    Join(dir, link_name \o extension), 1)
             made == create_symlink(acc.fs, dry_run, source_path, loop.path, fault)
             next ==
                 IF loop.raised
                 THEN [acc EXCEPT !.raised = TRUE,
                                  !.report = Append(@, Placed(i, source_path, loop.path, "raised"))]
                 ELSE [fs |-> made.fs,
                       raised |-> made.raised,
                       created_count |-> acc.created_count + (IF made.ret THEN 1 ELSE 0),
                       report |-> Append(acc.report,
                                         Placed(i, source_path, loop.path, made.outcome))]
         IN  place_scenes(next, dry_run, use_title, dir, scenes, fault, i + 1)

\* the common body of create_tag_links and create_performer_links
place_links(f, dry_run, use_title, sub, item_name, scenes, fault) ==
    LET dir == Join(Join(FarmPath, sub), sanitize_name(item_name))
        made == IF dry_run THEN [fs |-> f, raised |-> FALSE] ELSE Mkdir(f, dir)
        start == [fs |-> made.fs, raised |-> made.raised, created_count |-> 0, report |-> <<>>]
    IN  place_scenes(start, dry_run, use_title, dir, scenes, fault, 1)

create_tag_links(f, dry_run, use_title, tag_name, scenes, fault) ==
    place_links(f, dry_run, use_title, TagsSub, tag_name, scenes, fault)

create_performer_links(f, dry_run, use_title, performer_name, scenes, fault) ==
    place_links(f, dry_run, use_title, PerformersSub, performer_name, scenes, fault)

\* mutant of remove_dangling_links: the first OSError ends the loop
RECURSIVE remove_dangling_links_until_error(_, _, _, _)
remove_dangling_links_until_error(acc, dangling_links, fault, i) ==
    IF i > Len(dangling_links) THEN acc
    ELSE LET u == Unlink(acc.fs, dangling_links[i], fault)
             next == [fs |-> u.fs,
                      report |-> Append(acc.report,
                                        Placed(i, <<>>, dangling_links[i],
                                               IF u.err THEN "error_os" ELSE "removed"))]
         IN  IF u.err THEN next
             ELSE remove_dangling_links_until_error(next, dangling_links, fault, i + 1)

\* remove_dangling_links from path i on: an OSError on one path is printed and
\* the loop goes on; dry_run is not consulted
RECURSIVE remove_dangling_links(_, _, _, _)
remove_dangling_links(acc, dangling_links, fault, i) ==
    IF i > Len(dangling_links) THEN acc
    ELSE LET u == Unlink(acc.fs, dangling_links[i], fault)
             next == [fs |-> u.fs,
                      report |-> Append(acc.report,
                                        Placed(i, <<>>, dangling_links[i],
                                               IF u.err THEN "error_os" ELSE "removed"))]
         IN  remove_dangling_links(next, dangling_links, fault, i + 1)

\* the entries of a directory, as os.scandir lists them
Children(f, d) == {p \in DOMAIN f : Len(p) = Len(d) + 1 /\ Parent(p) = d}

\* mutant of os_walk: only the entries of the first sub-directories are seen
os_walk_one_level(f, top) ==
    LET dirs == {p \in Children(f, top) : IsDir(f, p) /\ ~IsSymlink(f, p)}
        seen == Children(f, top) \cup UNION {Children(f, d) : d \in dirs}
    IN  {p \in seen : ~IsDir(f, p) /\ IsSymlink(f, p) /\ ~Exists(f, p)}

\* os.walk(top), followlinks off: the entries of every directory reached, a
\* directory that is a symbolic link being listed but not entered; of these the
\* loop of find_dangling_links keeps the `files` (what is not a directory once
\* links are followed) that are symbolic links and do not exist
RECURSIVE os_walk(_, _)
os_walk(f, top) ==
    LET dirs == {p \in Children(f, top) : IsDir(f, p)}
        files == Children(f, top) \ dirs
    IN  {p \in files : IsSymlink(f, p) /\ ~Exists(f, p)}
        \cup UNION {os_walk(f, d) : d \in {p \in dirs : ~IsSymlink(f, p)}}

\* mutant of find_dangling_links: every symbolic link is reported
find_dangling_links_any_symlink(f) == {p \in Under(f, FarmPath) : IsSymlink(f, p)}

\* find_dangling_links: the paths found, the order being that of the walk
find_dangling_links(f) ==
    IF ~Exists(f, FarmPath) THEN {} ELSE os_walk(f, FarmPath)

\* the orders in which a walk may list a set of paths
Orderings(S) == {s \in [1..Cardinality(S) -> S] : \A p \in S : \E i \in DOMAIN s : s[i] = p}

(***************************************************************************)
(* Inputs: the scenes the catalog returns and the files on disk            *)
(***************************************************************************)
MaxPaths == 2       \* longest path list handed to remove_dangling_links
MaxInitLinks == 1   \* most link locations occupied before the engine first runs

SeqsUpTo(S, n) == UNION {[1..k -> S] : k \in 0..n}

Src1 == << <<"s">>, <<"1", ".", "m">> >>
SrcA == << <<"t">>, <<"A", ".", "m">> >>
Src9 == << <<"s">>, <<"9", ".", "m">> >>
Sources == {Src1, SrcA, Src9}

SceneFile(p) == [path |-> p, basename |-> PathName(p)]

\* Scene1 (by its title, when use_title) and Scene2 (by its file name) resolve to
\* the same link name A.m; Src9 is a file no scene of the catalog has
Scene1 == [id |-> <<"1">>, title |-> <<" ", "A", ".">>, files |-> <<SceneFile(Src1)>>]
Scene2 == [id |-> <<"2">>, title |-> <<>>, files |-> <<SceneFile(SrcA)>>]
Scene0 == [id |-> <<"0">>, title |-> <<"B">>, files |-> <<>>]
Scenes == {Scene1, Scene2, Scene0}
SceneLists == SeqsUpTo(Scenes, MaxScenes)

ItemX == <<"X", ":">>
ItemY == <<"Y">>
ItemZ == <<"Z">>
ItemW == <<"X", "_">>
ItemUp == <<".", ".", "/", ".", ".", "/", "t">>
ItemNames == {ItemX}

Faults == {"none", "symlink", "unlink"}

\* the item directory and the link locations the initial filesystem may occupy
ItemDir == Join(Join(FarmPath, TagsSub), sanitize_name(ItemX))
Slot0 == Join(ItemDir, <<"A", ".", "m">>)
Slot1 == Join(ItemDir, <<"A", "_", "1", ".", "m">>)
Slots == {Slot0, Slot1}
Stray == Join(FarmPath \o <<TagsSub, ItemZ>>, <<"A", ".", "m">>)

SlotEntries == {FileEntry, DirEntry} \cup {LinkEntry(s) : s \in Sources}

SourceDirs == (<< <<"s">> >> :> DirEntry) @@ (<< <<"t">> >> :> DirEntry)
SourceFiles(present) == [p \in present |-> FileEntry]
FarmDirs ==
    (FarmPath :> DirEntry) @@ (Join(FarmPath, TagsSub) :> DirEntry) @@ (ItemDir :> DirEntry)

InitFarms ==
    {<<>>, (FarmPath :> DirEntry)}
    \cup {FarmDirs @@ links : links \in UNION {[occupied -> SlotEntries] :
                    occupied \in {o \in SUBSET Slots : Cardinality(o) <= MaxInitLinks}}}

InitFs ==
    {SourceDirs @@ SourceFiles(present \cup {SrcA}) @@ farm :
        present \in SUBSET {Src1, Src9}, farm \in InitFarms}

(***************************************************************************)
(* The catalog and the configuration `build` reads                         *)
(***************************************************************************)
FavouriteTags == <<ItemX>>
FavouritePerformers == <<ItemX>>
TagScenes ==
    (ItemX :> <<Scene1, Scene2>>) @@ (ItemY :> <<Scene0, Scene2>>) @@ (ItemW :> <<Scene2>>)
    @@ (ItemUp :> <<Scene1, Scene2>>)
PerformerScenes == (ItemX :> <<Scene2, Scene1>>) @@ (ItemUp :> <<Scene2>>)

Config(tf, tn, pf, pn) ==
    [tags_favourite |-> tf, tags_names |-> tn,
     performers_favourite |-> pf, performers_names |-> pn]

Configs ==
    {Config(TRUE, <<ItemW>>, FALSE, <<>>),
     Config(TRUE, <<ItemZ, ItemY>>, FALSE, <<>>),
     Config(FALSE, <<>>, TRUE, <<>>),
     Config(FALSE, <<ItemY>>, TRUE, <<ItemZ>>)}

Item(cat, name, catalog) ==
    [cat |-> cat, name |-> name, found |-> name \in DOMAIN catalog,
     scenes |-> IF name \in DOMAIN catalog THEN catalog[name] ELSE <<>>]

Items(cat, names, catalog) == [i \in 1..Len(names) |-> Item(cat, names[i], catalog)]

\* the order in which build visits tags and performers
WorkList(c) ==
    (IF c.tags_favourite THEN Items("tag", FavouriteTags, TagScenes) ELSE <<>>)
    \o Items("tag", c.tags_names, TagScenes)
    \o (IF c.performers_favourite
        THEN Items("performer", FavouritePerformers, PerformerScenes) ELSE <<>>)
    \o Items("performer", c.performers_names, PerformerScenes)

(***************************************************************************)
(* State machine                                                           *)
(***************************************************************************)
Call(op, item, scenes, source, link, paths, fault, before, ret, raised, report, rerun, prev_fault) ==
    [op |-> op, item |-> item, scenes |-> scenes, source |-> source, link |-> link,
     paths |-> paths, fault |-> fault, before |-> before, ret |-> ret, raised |-> raised,
     report |-> report, rerun |-> rerun, prev_fault |-> prev_fault]

PlaceCall(op, item, scenes, fault, before, r, rerun, prev_fault) ==
    Call(op, item, scenes, <<>>, <<>>, <<>>, fault, before, r.created_count, r.raised,
         r.report, rerun, prev_fault)

Init ==
    /\ fs \in InitFs
    /\ engine = [constructed |-> FALSE, dry_run |-> FALSE, use_title |-> TRUE]
    /\ pc = "idle"
    /\ queue = <<>>
    /\ last = Call("none", <<>>, <<>>, <<>>, <<>>, <<>>, "none", fs, 0, FALSE, <<>>, FALSE, "none")

\* LinkFarmManager(farm_path, use_title, dry_run)
Construct(use_title, dry_run) ==
    /\ pc = "idle"
    /\ LET r == init_manager(fs, dry_run)
       IN  /\ fs' = r.fs
           /\ engine' = [constructed |-> ~r.raised, dry_run |-> dry_run, use_title |-> use_title]
           /\ pc' = IF r.raised THEN "failed" ELSE "ready"
           /\ last' = Call("init", <<>>, <<>>, <<>>, <<>>, <<>>, "none", fs, 0, r.raised,
                           <<>>, FALSE, "none")
    /\ UNCHANGED queue

CreateTagLinks(tag_name, scenes, fault) ==
    /\ pc = "ready"
    /\ LET r == create_tag_links(fs, engine.dry_run, engine.use_title, tag_name, scenes, fault)
       IN  /\ fs' = r.fs
           /\ last' = PlaceCall("tag", tag_name, scenes, fault, fs, r, FALSE, "none")
    /\ pc' = "called"
    /\ UNCHANGED <<engine, queue>>

CreatePerformerLinks(performer_name, scenes, fault) ==
    /\ pc = "ready"
    /\ LET r == create_performer_links(fs, engine.dry_run, engine.use_title,
                                       performer_name, scenes, fault)
       IN  /\ fs' = r.fs
           /\ last' = PlaceCall("performer", performer_name, scenes, fault, fs, r, FALSE, "none")
    /\ pc' = "called"
    /\ UNCHANGED <<engine, queue>>

\* the same create_*_links call once more, nothing else having touched the filesystem
Rerun(fault) ==
    /\ pc = "called"
    /\ last.op \in {"tag", "performer"}
    /\ LET r == IF last.op = "tag"
               THEN create_tag_links(fs, engine.dry_run, engine.use_title,
                                     last.item, last.scenes, fault)
               ELSE create_performer_links(fs, engine.dry_run, engine.use_title,
                                           last.item, last.scenes, fault)
       IN  /\ fs' = r.fs
           /\ last' = PlaceCall(last.op, last.item, last.scenes, fault, fs, r, TRUE, last.fault)
    /\ pc' = "rerun"
    /\ UNCHANGED <<engine, queue>>

CreateSymlink(source_path, link_path, fault) ==
    /\ pc = "ready"
    /\ LET r == create_symlink(fs, engine.dry_run, source_path, link_path, fault)
       IN  /\ fs' = r.fs
           /\ last' = Call("symlink", <<>>, <<>>, source_path, link_path, <<>>, fault, fs,
                           IF r.ret THEN 1 ELSE 0, r.raised,
                           <<Placed(1, source_path, link_path, r.outcome)>>, FALSE, "none")
    /\ pc' = "called"
    /\ UNCHANGED <<engine, queue>>

RemoveDanglingLinks(dangling_links, fault) ==
    /\ pc = "ready"
    /\ LET r == remove_dangling_links([fs |-> fs, report |-> <<>>], dangling_links, fault, 1)
       IN  /\ fs' = r.fs
           /\ last' = Call("remove", <<>>, <<>>, <<>>, <<>>, dangling_links, fault, fs, 0,
                           FALSE, r.report, FALSE, "none")
    /\ pc' = "called"
    /\ UNCHANGED <<engine, queue>>

FindDanglingLinks ==
    /\ pc = "ready"
    /\ \E order \in Orderings(find_dangling_links(fs)) :
         last' = Call("find", <<>>, <<>>, <<>>, <<>>, order, "none", fs, 0, FALSE, <<>>,
                         FALSE, "none")
    /\ pc' = "called"
    /\ UNCHANGED <<fs, engine, queue>>

\* cli.clean, as the first command or after a build: the manager is constructed,
\* the dangling links are found and, unless dry_run, removed
Clean(dry_run, use_title, fault) ==
    /\ pc \in {"idle", "done"}
    /\ LET r == init_manager(fs, dry_run)
           found == IF r.raised THEN {} ELSE find_dangling_links(r.fs)
       IN  \E order \in Orderings(found) :
             LET out == IF dry_run \/ order = <<>> THEN [fs |-> r.fs, report |-> <<>>]
                        ELSE remove_dangling_links([fs |-> r.fs, report |-> <<>>],
                                                   order, fault, 1)
             IN  /\ fs' = out.fs
                 /\ last' = Call("clean", <<>>, <<>>, <<>>, <<>>, order, fault, fs, 0,
                                 r.raised, out.report, FALSE, "none")
                 /\ engine' = [constructed |-> ~r.raised, dry_run |-> dry_run,
                               use_title |-> use_title]
                 /\ pc' = IF r.raised THEN "failed" ELSE "cleaned"
    /\ UNCHANGED queue

\* cli.build up to its loops: the manager is constructed, the work is laid out
BuildStart(config, dry_run, use_title) ==
    /\ pc = "idle"
    /\ LET r == init_manager(fs, dry_run)
       IN  /\ fs' = r.fs
           /\ engine' = [constructed |-> ~r.raised, dry_run |-> dry_run, use_title |-> use_title]
           /\ pc' = IF r.raised THEN "failed" ELSE "build"
           /\ queue' = IF r.raised THEN <<>> ELSE WorkList(config)
           /\ last' = Call("init", <<>>, <<>>, <<>>, <<>>, <<>>, "none", fs, 0, r.raised,
                           <<>>, FALSE, "none")

\* one iteration of a loop of cli.build; an exception ends the command (exit 1)
BuildItem(fault) ==
    /\ pc = "build"
    /\ queue # <<>>
    /\ LET it == Head(queue)
           r == IF ~it.found
                THEN [fs |-> fs, raised |-> FALSE, created_count |-> 0, report |-> <<>>]
                ELSE IF it.cat = "tag"
                THEN create_tag_links(fs, engine.dry_run, engine.use_title,
                                      it.name, it.scenes, fault)
                ELSE create_performer_links(fs, engine.dry_run, engine.use_title,
                                            it.name, it.scenes, fault)
       IN  /\ fs' = r.fs
           /\ last' = PlaceCall(IF ~it.found THEN "notfound" ELSE it.cat, it.name, it.scenes,
                                fault, fs, r, FALSE, "none")
           /\ pc' = IF r.raised THEN "failed" ELSE "build"
           /\ queue' = IF r.raised THEN queue ELSE Tail(queue)
    /\ UNCHANGED engine

BuildDone ==
    /\ pc = "build"
    /\ queue = <<>>
    /\ pc' = "done"
    /\ UNCHANGED <<fs, engine, queue, last>>

Next ==
    \/ \E ut \in BOOLEAN, dry \in BOOLEAN : Construct(ut, dry)
    \/ \E n \in ItemNames, s \in SceneLists, f \in Faults : CreateTagLinks(n, s, f)
    \/ \E n \in ItemNames, s \in SceneLists, f \in Faults : CreatePerformerLinks(n, s, f)
    \/ \E f \in Faults : Rerun(f)
    \/ \E s \in Sources, l \in Slots \cup {Stray}, f \in Faults : CreateSymlink(s, l, f)
    \/ \E p \in SeqsUpTo(Slots, MaxPaths), f \in Faults : RemoveDanglingLinks(p, f)
    \/ FindDanglingLinks
    \/ \E dry \in BOOLEAN, ut \in BOOLEAN, f \in Faults : Clean(dry, ut, f)
    \/ \E c \in Configs, dry \in BOOLEAN, ut \in BOOLEAN : BuildStart(c, dry, ut)
    \/ \E f \in Faults : BuildItem(f)
    \/ BuildDone

Spec == Init /\ [][Next]_vars

(***************************************************************************)
(* The sweep on a farm others have written to: link locations hold valid    *)
(* and dangling links, regular files, directories and links to directories  *)
(***************************************************************************)
\* an entry inside a directory found at a link location
Deep == Join(Slot0, <<"L">>)
SweepPaths == {Slot0, Slot1, Deep}

SweepEntries == {FileEntry, LinkEntry(Src1), LinkEntry(SrcA), LinkEntry(Parent(Src1))}

SweepFarms ==
    {<<>>, (FarmPath :> DirEntry)}
    \cup {FarmDirs @@ links :
            links \in UNION {[occupied -> SweepEntries \cup {DirEntry}] :
                                occupied \in SUBSET {Slot0, Slot1}}}
    \cup {FarmDirs @@ (Slot0 :> DirEntry) @@ (Deep :> deep) @@ links :
            deep \in SweepEntries,
            links \in UNION {[occupied -> SweepEntries] : occupied \in SUBSET {Slot1}}}

SweepFs ==
    {SourceDirs @@ SourceFiles(present \cup {SrcA}) @@ farm :
        present \in SUBSET {Src1}, farm \in SweepFarms}

InitSweep ==
    /\ fs \in SweepFs
    /\ engine = [constructed |-> FALSE, dry_run |-> FALSE, use_title |-> TRUE]
    /\ pc = "idle"
    /\ queue = <<>>
    /\ last = Call("none", <<>>, <<>>, <<>>, <<>>, <<>>, "none", fs, 0, FALSE, <<>>, FALSE, "none")

NextSweep ==
    \/ \E ut \in BOOLEAN, dry \in BOOLEAN : Construct(ut, dry)
    \/ \E p \in SeqsUpTo(SweepPaths, MaxPaths), f \in Faults : RemoveDanglingLinks(p, f)
    \/ FindDanglingLinks
    \/ \E dry \in BOOLEAN, ut \in BOOLEAN, f \in Faults : Clean(dry, ut, f)

SpecSweep == InitSweep /\ [][NextSweep]_vars

(***************************************************************************)
(* _sanitize_name on its own: applied to a name, then to its own result     *)
(***************************************************************************)
MaxNameLen == 3     \* longest name handed to _sanitize_name

NameChars == {"a", "_", ".", " ", "/", ":"}
Names == SeqsUpTo(NameChars, MaxNameLen)

InitSanitize ==
    /\ fs = <<>>
    /\ engine = [constructed |-> TRUE, dry_run |-> TRUE, use_title |-> TRUE]
    /\ pc = "ready"
    /\ queue = <<>>
    /\ \E name \in Names :
         last = Call("none", name, <<>>, <<>>, <<>>, <<>>, "none", fs, 0, FALSE, <<>>,
                     FALSE, "none")

\* _sanitize_name(name); the results so far are kept in last.report
SanitizeName ==
    /\ pc = "ready"
    /\ last.op = "none"
    /\ last' = [last EXCEPT !.op = "sanitize", !.report = <<sanitize_name(last.item)>>]
    /\ pc' = "called"
    /\ UNCHANGED <<fs, engine, queue>>

\* _sanitize_name on the name it returned
SanitizeAgain ==
    /\ pc = "called"
    /\ last.op = "sanitize"
    /\ last' = [last EXCEPT !.report = Append(@, sanitize_name(@[Len(@)])), !.rerun = TRUE]
    /\ pc' = "rerun"
    /\ UNCHANGED <<fs, engine, queue>>

NextSanitize == SanitizeName \/ SanitizeAgain

SpecSanitize == InitSanitize /\ [][NextSanitize]_vars

(***************************************************************************)
(* A build cut short and run again                                         *)
(***************************************************************************)
\* the directory create_*_links uses for an item of the work list
ItemDirOf(it) ==
    Join(Join(FarmPath, IF it.cat = "tag" THEN TagsSub ELSE PerformersSub),
         sanitize_name(it.name))

create_links(f, dry_run, use_title, it, scenes, fault) ==
    IF it.cat = "tag" THEN create_tag_links(f, dry_run, use_title, it.name, scenes, fault)
    ELSE create_performer_links(f, dry_run, use_title, it.name, scenes, fault)

\* the loops of cli.build over the work list; an exception ends them
RECURSIVE build_items(_, _, _, _, _)
build_items(acc, dry_run, use_title, items, fault) ==
    IF items = <<>> \/ acc.raised THEN acc
    ELSE LET it == Head(items)
             r == IF ~it.found THEN acc
                  ELSE create_links(acc.fs, dry_run, use_title, it, it.scenes, fault)
         IN  build_items([fs |-> r.fs, raised |-> r.raised], dry_run, use_title,
                         Tail(items), fault)

\* cli.build run to its end: the manager is constructed, then the loops
build(f, dry_run, use_title, items, fault) ==
    build_items(init_manager(f, dry_run), dry_run, use_title, items, fault)

\* the states Path.mkdir(parents=True) passes through: one directory at a time
MkdirCuts(f, p) ==
    {f} \cup {Mkdir(f, SubSeq(p, 1, k)).fs : k \in 1..Len(p)}

\* the states one create_*_links call passes through, one filesystem step at a
\* time: the directories made, then per scene the unlink of a link that is
\* overwritten and the symlink
ItemCuts(f, use_title, it, fault) ==
    IF ~it.found THEN {f}
    ELSE LET upto(k) == create_links(f, FALSE, use_title, it, SubSeq(it.scenes, 1, k), fault)
             overwrites == {k \in 1..Len(it.scenes) :
                              /\ upto(k).report # <<>>
                              /\ upto(k).report[Len(upto(k).report)].scene = k
                              /\ upto(k).report[Len(upto(k).report)].outcome = "overwritten"}
         IN  MkdirCuts(f, ItemDirOf(it))
             \cup {upto(k).fs : k \in 0..Len(it.scenes)}
             \cup {Without(upto(k - 1).fs, upto(k).report[Len(upto(k).report)].link) :
                     k \in overwrites}

\* the states a build of the work list passes through after the manager is made
RECURSIVE BuildCuts(_, _, _, _)
BuildCuts(f, use_title, items, fault) ==
    IF items = <<>> THEN {f}
    ELSE LET done == build_items([fs |-> f, raised |-> FALSE], FALSE, use_title,
                                 <<Head(items)>>, fault)
         IN  ItemCuts(f, use_title, Head(items), fault)
             \cup (IF done.raised THEN {}
                   ELSE BuildCuts(done.fs, use_title, Tail(items), fault))

\* a build that is not a dry run is stopped after some of its filesystem steps
InterruptBuild(config, use_title, fault) ==
    /\ pc = "idle"
    /\ LET m == init_manager(fs, FALSE)
       IN  /\ fs' \in {fs} \cup (IF m.raised THEN {}
                                 ELSE BuildCuts(m.fs, use_title, WorkList(config), fault))
           /\ last' = Call("interrupted", <<>>, <<>>, <<>>, <<>>, <<>>, fault, fs, 0,
                           m.raised, <<>>, FALSE, "none")
    /\ engine' = [constructed |-> FALSE, dry_run |-> FALSE, use_title |-> use_title]
    /\ queue' = WorkList(config)
    /\ pc' = "interrupted"

\* the same build is run again, to its end, from where the first one stopped
ResumeBuild ==
    /\ pc = "interrupted"
    /\ LET r == build(fs, FALSE, engine.use_title, queue, last.fault)
       IN  /\ fs' = r.fs
           /\ last' = [last EXCEPT !.op = "resumed", !.raised = r.raised, !.rerun = TRUE,
                                   !.prev_fault = last.fault]
    /\ engine' = [engine EXCEPT !.constructed = TRUE]
    /\ pc' = "done"
    /\ UNCHANGED queue

NextResume ==
    \/ \E c \in Configs, ut \in BOOLEAN, f \in Faults : InterruptBuild(c, ut, f)
    \/ ResumeBuild

SpecResume == Init /\ [][NextResume]_vars

(***************************************************************************)
(* Build and clean runs on item names that spell a path out of the farm     *)
(***************************************************************************)
FrameConfigs ==
    {Config(TRUE, <<ItemUp>>, FALSE, <<>>),
     Config(FALSE, <<ItemUp>>, FALSE, <<ItemUp>>)}

NextFrame ==
    \/ \E c \in FrameConfigs, dry \in BOOLEAN, ut \in BOOLEAN : BuildStart(c, dry, ut)
    \/ \E f \in Faults : BuildItem(f)
    \/ BuildDone
    \/ \E dry \in BOOLEAN, ut \in BOOLEAN, f \in Faults : Clean(dry, ut, f)

SpecFrame == Init /\ [][NextFrame]_vars

(***************************************************************************)
(* The collision loop, one evaluation of its condition at a time            *)
(***************************************************************************)
MaxSuffix == 2      \* highest _N name taken in the item directory beforehand

LoopSlots ==
    {Slot0} \cup {Join(ItemDir, <<"A", "_">> \o IntToStr(n) \o <<".", "m">>) : n \in 1..MaxSuffix}

LoopEntries == {FileEntry, LinkEntry(Src1), LinkEntry(SrcA), LinkEntry(Src9)}

LoopFs ==
    {SourceDirs @@ SourceFiles(present \cup {SrcA}) @@ FarmDirs @@ links :
        present \in SUBSET {Src1},
        links \in UNION {[occupied -> LoopEntries] : occupied \in SUBSET LoopSlots}}

InitLoop ==
    /\ fs \in LoopFs
    /\ engine = [constructed |-> FALSE, dry_run |-> FALSE, use_title |-> TRUE]
    /\ pc = "idle"
    /\ queue = <<>>
    /\ last = Call("none", <<>>, <<>>, <<>>, <<>>, <<>>, "none", fs, 0, FALSE, <<>>, FALSE, "none")

\* lines 116-122: the scene's source, its first candidate path, counter = 1
LoopStart(scene, use_title, dry_run) ==
    /\ pc = "idle"
    /\ scene.files # <<>>
    /\ engine' = [constructed |-> TRUE, dry_run |-> dry_run, use_title |-> use_title]
    /\ last' = Call("loop", ItemX, <<scene>>, scene.files[1].path,
                    Join(ItemDir, get_link_name(use_title, scene) \o get_file_extension(scene)),
                    <<>>, "none", fs, 1, FALSE, <<>>, FALSE, "none")
    /\ pc' = "loop"
    /\ UNCHANGED <<fs, queue>>

\* the condition of the while is true: the next _N name is tried
LoopStep ==
    /\ pc = "loop"
    /\ ~engine.dry_run
    /\ Exists(fs, last.link)
    /\ IsSymlink(fs, last.link)
    /\ Readlink(fs, last.link) # last.source
    /\ last' = [last EXCEPT
                  !.link = Join(ItemDir, get_link_name(engine.use_title, last.scenes[1])
                                         \o <<"_">> \o IntToStr(last.ret)
                                         \o get_file_extension(last.scenes[1])),
                  !.ret = @ + 1]
    /\ UNCHANGED <<fs, engine, pc, queue>>

\* the condition of the while raises: readlink() on an entry that is no link
LoopRaise ==
    /\ pc = "loop"
    /\ ~engine.dry_run
    /\ Exists(fs, last.link)
    /\ ~IsSymlink(fs, last.link)
    /\ last' = [last EXCEPT !.raised = TRUE]
    /\ pc' = "failed"
    /\ UNCHANGED <<fs, engine, queue>>

\* the condition of the while is false: the scene is placed at link_path
LoopExit ==
    /\ pc = "loop"
    /\ \/ engine.dry_run
       \/ ~Exists(fs, last.link)
       \/ IsSymlink(fs, last.link) /\ Readlink(fs, last.link) = last.source
    /\ pc' = "placed"
    /\ UNCHANGED <<fs, engine, queue, last>>

NextLoop ==
    \/ \E sc \in Scenes, ut \in BOOLEAN, dry \in BOOLEAN : LoopStart(sc, ut, dry)
    \/ LoopStep
    \/ LoopRaise
    \/ LoopExit

SpecLoop == InitLoop /\ [][NextLoop]_vars

(***************************************************************************)
(* Properties                                                              *)
(***************************************************************************)
IsPlace == last.op \in {"tag", "performer"}
LastSub == IF last.op = "tag" THEN TagsSub ELSE PerformersSub
LastDir == Join(Join(FarmPath, LastSub), sanitize_name(last.item))
LinkFile(scene) == get_link_name(engine.use_title, scene) \o get_file_extension(scene)
Suffixed(scene, n) ==
    get_link_name(engine.use_title, scene) \o <<"_">> \o IntToStr(n) \o get_file_extension(scene)
Linked == {"planned", "created", "overwritten", "already"}
WithFiles == {i \in DOMAIN last.scenes : last.scenes[i].files # <<>>}
SourceOf(i) == last.scenes[i].files[1].path

\* C1: within one create_*_links call (and so within one engine run) no two
\* scenes with different source paths are linked, or planned to be linked, at
\* the same link path.
C1_NoSharedLinkPath ==
    IsPlace =>
        \A i, j \in DOMAIN last.report :
            (/\ last.report[i].outcome \in Linked
             /\ last.report[j].outcome \in Linked
             /\ last.report[i].source # last.report[j].source)
            => last.report[i].link # last.report[j].link

\* C2: a second create_*_links call with the same item name and scene list,
\* nothing having changed in between (the filesystem is as the first call left
\* it and the operating system fails, or does not, as it did in the first call),
\* leaves the filesystem exactly as the first call left it.
C2_RerunChangesNothing ==
    (last.rerun /\ last.fault = last.prev_fault) => fs = last.before

\* a rerun of a real run that finds both colliding scenes already linked, at
\* the unsuffixed and at the suffixed name, and changes nothing
C2_Witness ==
    /\ last.rerun
    /\ last.prev_fault = "none"
    /\ ~engine.dry_run
    /\ fs = last.before
    /\ \E i, j \in DOMAIN last.report :
        /\ last.report[i].outcome = "already"
        /\ last.report[j].outcome = "already"
        /\ last.report[i].link = Join(LastDir, LinkFile(last.scenes[last.report[i].scene]))
        /\ last.report[j].link = Join(LastDir, Suffixed(last.scenes[last.report[j].scene], 1))

\* the pairs C3 is about: i is processed before j, both resolve to the same link
\* name, their sources differ and exist, and every scene before j of that name
\* has i's source
Colliding(i, j) ==
    /\ i \in WithFiles /\ j \in WithFiles /\ i < j
    /\ LinkFile(last.scenes[i]) = LinkFile(last.scenes[j])
    /\ SourceOf(i) # SourceOf(j)
    /\ Exists(last.before, SourceOf(i)) /\ Exists(last.before, SourceOf(j))
    /\ \A k \in WithFiles :
        (k < j /\ LinkFile(last.scenes[k]) = LinkFile(last.scenes[i]))
        => SourceOf(k) = SourceOf(i)
    /\ \A k \in WithFiles : k < j => LinkFile(last.scenes[k]) # Suffixed(last.scenes[i], 1)

FirstPlainSecondSuffixed(i, j) ==
    LET plain == Join(LastDir, LinkFile(last.scenes[i]))
        second == Join(LastDir, Suffixed(last.scenes[i], 1))
    IN  /\ plain \in DOMAIN fs /\ fs[plain] = LinkEntry(SourceOf(i))
        /\ second \in DOMAIN fs /\ fs[second] = LinkEntry(SourceOf(j))

C4_DryRunBuildFrame ==
    (engine.dry_run /\ last.op \in {"init", "tag", "performer", "notfound"})
    => fs = last.before

\* a dry-run call that reports a planned link while not even the farm root exists
C4_Witness ==
    /\ engine.dry_run /\ IsPlace
    /\ \E i \in DOMAIN last.report : last.report[i].outcome = "planned"
    /\ FarmPath \notin DOMAIN fs
    /\ fs = last.before

\* C5: with dry_run set, no operation of the engine changes the filesystem,
\* remove_dangling_links and _create_symlink included.
C5_DryRunEngineFrame ==
    (engine.dry_run /\ last.op \in {"init", "tag", "performer", "symlink", "remove"})
    => fs = last.before

NonSymlinkAt(f, p) == p \in DOMAIN f /\ f[p].kind \in {"file", "dir"}

\* C6: _create_symlink on a link path held by a regular file or directory, with
\* the source present and dry_run off, returns False with the regular-file error
\* and changes nothing; and no _create_symlink call removes or replaces a non-symlink.
C6_RegularFileKept ==
    (last.op = "symlink" /\ NonSymlinkAt(last.before, last.link))
    => /\ last.link \in DOMAIN fs /\ fs[last.link] = last.before[last.link]
       /\ (~engine.dry_run /\ Exists(last.before, last.source))
          => /\ last.report[1].outcome = "error_file"
             /\ last.ret = 0
             /\ ~last.raised
             /\ fs = last.before

C6_Witness ==
    /\ last.op = "symlink" /\ ~engine.dry_run
    /\ Exists(last.before, last.source)
    /\ last.link \in DOMAIN last.before /\ last.before[last.link] = FileEntry
    /\ last.report[1].outcome = "error_file"

\* C7: a regular file or directory at a scene's link location in a real
\* create_*_links call is an error of that scene only: no exception escapes,
\* every scene with a file is processed, and build goes on.
C7_RegularFileIsPerItem ==
    (/\ IsPlace /\ ~engine.dry_run /\ last.fault = "none"
     /\ \E i \in DOMAIN last.report : NonSymlinkAt(last.before, last.report[i].link))
    => /\ ~last.raised
       /\ pc # "failed"
       /\ \A i \in WithFiles : \E k \in DOMAIN last.report : last.report[k].scene = i

\* C8: the outcome of _create_symlink follows the ordered decision table:
\* source missing -> warning, nothing changed; else dry_run -> planned, nothing
\* changed; else a symlink to the source -> success, nothing changed; else a
\* non-symlink -> error, nothing changed; else, the operating system not
\* failing, a symlink to another target is replaced and an absent path is linked.
C8_DecisionTable ==
    last.op = "symlink" =>
        LET b == last.before
            s == last.source
            l == last.link
            o == last.report[1].outcome
            linked == With(b, l, LinkEntry(s))
        IN  IF ~Exists(b, s) THEN o = "warning" /\ last.ret = 0 /\ fs = b
            ELSE IF engine.dry_run THEN o = "planned" /\ last.ret = 1 /\ fs = b
            ELSE IF IsSymlink(b, l) /\ Readlink(b, l) = s
            THEN o = "already" /\ last.ret = 1 /\ fs = b
            ELSE IF IsSymlink(b, l)
            THEN last.fault = "none" => (o = "overwritten" /\ last.ret = 1 /\ fs = linked)
            ELSE IF l \in DOMAIN b THEN o = "error_file" /\ last.ret = 0 /\ fs = b
            ELSE (last.fault # "symlink" /\ IsDir(b, Parent(l)))
                 => (o = "created" /\ last.ret = 1 /\ fs = linked)

\* a symlink to another source replaced by _create_symlink
C8_Witness ==
    /\ last.op = "symlink"
    /\ last.report[1].outcome = "overwritten"
    /\ IsSymlink(last.before, last.link)
    /\ fs[last.link] = LinkEntry(last.source)
    /\ last.before[last.link] # fs[last.link]

\* C9: an operating-system failure in the unlink or symlink step of
\* _create_symlink gives an error outcome, raises nothing and leaves the
\* filesystem as it was before the call.
C9_FailureLeavesNoPartialState ==
    (last.op = "symlink" /\ last.report[1].outcome \in {"error_os", "raised"})
    => (~last.raised /\ fs = last.before)

OutcomeKind(o) ==
    IF o \in Linked THEN "link" ELSE IF o = "warning" THEN "warning" ELSE "error"

\* C10: a dry-run create_*_links call reports, scene by scene, the link path and
\* the kind of outcome a real call on the same filesystem would come to.
C10_DryRunMatchesRealRun ==
    (IsPlace /\ engine.dry_run) =>
        LET real == place_links(last.before, FALSE, engine.use_title, LastSub,
                                last.item, last.scenes, "none").report
        IN  /\ Len(real) = Len(last.report)
            /\ \A i \in DOMAIN last.report :
                (i \in DOMAIN real)
                => /\ OutcomeKind(real[i].outcome) = OutcomeKind(last.report[i].outcome)
                   /\ last.report[i].outcome = "planned"
                      => real[i].link = last.report[i].link

\* the symbolic links below the farm root whose target does not exist
DanglingUnder(f) == {p \in Under(f, FarmPath) : IsSymlink(f, p) /\ ~Exists(f, p)}
ValidLinksUnder(f) == {p \in Under(f, FarmPath) : IsSymlink(f, p) /\ Exists(f, p)}
PlainUnder(f) == {p \in Under(f, FarmPath) : ~IsSymlink(f, p)}
PathSet(paths) == {paths[i] : i \in DOMAIN paths}

\* C11: find_dangling_links returns, each once, exactly the paths below the farm
\* root that are symbolic links whose target does not exist (no valid link, no
\* entry that is not a link), nothing when the root does not exist, and leaves
\* the filesystem as it was
C11_FindReturnsTheDangling ==
    last.op = "find" =>
        /\ PathSet(last.paths) = DanglingUnder(last.before)
        /\ Len(last.paths) = Cardinality(DanglingUnder(last.before))
        /\ ~Exists(last.before, FarmPath) => last.paths = <<>>
        /\ fs = last.before

\* a walk that finds a dangling link inside a directory at a link location and
\* passes over a valid link
C11_Witness ==
    /\ last.op = "find"
    /\ Deep \in PathSet(last.paths)
    /\ ValidLinksUnder(fs) # {}

\* the file system lets path i of the list go at its turn: no refusal, the path
\* holds a file or a link before the call and no earlier place of the list names it
Removable(i) ==
    /\ last.fault # "unlink"
    /\ last.paths[i] \in DOMAIN last.before
    /\ last.before[last.paths[i]].kind # "dir"
    /\ \A j \in 1..(i - 1) : last.paths[j] # last.paths[i]

\* C12: remove_dangling_links attempts unlink on every path of its list, in the
\* order of the list; a path the OS refuses is reported and every later path is
\* still attempted, so that exactly the removable paths are gone afterwards
C12_EveryPathIsAttempted ==
    last.op = "remove" =>
        /\ Len(last.report) = Len(last.paths)
        /\ \A i \in DOMAIN last.paths :
              /\ last.report[i].link = last.paths[i]
              /\ last.report[i].outcome = IF Removable(i) THEN "removed" ELSE "error_os"
        /\ fs = [p \in DOMAIN last.before
                        \ {last.paths[i] : i \in {j \in DOMAIN last.paths : Removable(j)}}
                    |-> last.before[p]]
        /\ ~last.raised

\* the first unlink fails and the second path is removed all the same
C12_Witness ==
    /\ last.op = "remove"
    /\ Len(last.paths) = 2
    /\ last.report[1].outcome = "error_os"
    /\ last.report[2].outcome = "removed"
    /\ last.paths[2] \notin DOMAIN fs

\* a usable name: not empty, no problematic character, no dot or blank at an end
IsCleanName(n) ==
    /\ n # <<>>
    /\ \A i \in DOMAIN n : n[i] \notin ProblematicChars
    /\ n[1] \notin StripChars
    /\ n[Len(n)] \notin StripChars

\* C13: _sanitize_name returns a name for every string, the empty string and
\* strings of stripped characters included, and applied to its own result it
\* returns that result
C13_SanitizeIsIdempotent ==
    last.op = "sanitize" =>
        /\ IsCleanName(last.report[1])
        /\ last.rerun => last.report[2] = last.report[1]

\* a name of stripped characters only, sanitized twice
C13_Witness ==
    /\ last.op = "sanitize"
    /\ last.rerun
    /\ last.item = <<".", " ", ".">>
    /\ last.report = <<Unnamed, Unnamed>>

\* a symbolic link is at p after the call as it was before it
LinkKept(p) == IsSymlink(fs, p) /\ Readlink(fs, p) = Readlink(last.before, p)

\* C14: a create_*_links call that is not a dry run never removes or retargets
\* a symbolic link it finds, whether that link's target exists or not: a scene
\* whose candidate path holds a link to another target is given the next
\* suffixed name instead
C14_ExistingLinkKept ==
    (IsPlace /\ ~engine.dry_run) =>
        \A p \in DOMAIN last.before :
            IsSymlink(last.before, p) =>
                /\ LinkKept(p)
                /\ \A i \in DOMAIN last.report :
                      (last.report[i].link = p /\ last.report[i].outcome \in Linked)
                          => last.report[i].source = Readlink(last.before, p)

HasFiles(scene) == scene.files # <<>>

\* a create_*_links call that is not a dry run, met no OS failure and found
\* nothing but symbolic links in the item directory
CleanPlacement ==
    /\ IsPlace
    /\ ~engine.dry_run
    /\ last.fault = "none"
    /\ ~last.raised
    /\ \A i \in DOMAIN last.report : last.report[i].outcome \notin {"error_os", "error_file"}
    /\ \A p \in Under(last.before, LastDir) : IsSymlink(last.before, p)

\* C15: after such a call every scene whose first file exists has a symbolic
\* link to that file in the item directory; the scenes without files are not
\* reported and the call leaves the filesystem and the count as the same call
\* without them would
C15_EveryPlaceableSceneIsLinked ==
    CleanPlacement =>
        /\ \A i \in WithFiles :
              Exists(last.before, SourceOf(i)) =>
                  \E p \in Children(fs, LastDir) :
                      IsSymlink(fs, p) /\ Readlink(fs, p) = SourceOf(i)
        /\ \A k \in DOMAIN last.report : last.report[k].scene \in WithFiles
        /\ LET r == place_links(last.before, FALSE, engine.use_title, LastSub, last.item,
                                SelectSeq(last.scenes, HasFiles), "none")
           IN  r.fs = fs /\ r.created_count = last.ret

\* a scene without files ahead of a scene that is linked, in a directory that
\* already held a link
C15_Witness ==
    /\ CleanPlacement
    /\ Len(last.scenes) = 2
    /\ last.scenes[1].files = <<>>
    /\ last.ret = 1
    /\ Under(last.before, LastDir) # {}
    /\ fs # last.before

\* C16: two items of one category with different names are placed in different
\* directories: the item a build has just placed and the item it places next
\* never share one
C16_OwnDirectoryPerItem ==
    (pc = "build" /\ IsPlace /\ queue # <<>>) =>
        ((Head(queue).found /\ Head(queue).cat = last.op /\ Head(queue).name # last.item)
            => ItemDirOf(Head(queue)) # LastDir)

\* C17: a build stopped after any number of its filesystem steps and then run
\* again in full, with the same input, ends in the filesystem an uninterrupted
\* build ends in from the original state
C17_ResumeEndsLikeOneBuild ==
    last.op = "resumed" =>
        fs = build(last.before, FALSE, engine.use_title, queue, last.fault).fs

\* the scene has no file or its first file is there
SourcePresent(scene) == scene.files = <<>> \/ Exists(last.before, scene.files[1].path)

\* C18: a scene whose source file is missing gets no link and changes nothing,
\* and the call ends (filesystem, exception or none) as if the scene were not
\* in the list, so that later scenes and items are placed all the same; a
\* configured name the catalog does not have gets no directory and no links,
\* and the build goes on to the next item
C18_WarningsSkipOnlyTheItem ==
    /\ IsPlace =>
          /\ \A k \in DOMAIN last.report :
                ~Exists(last.before, last.report[k].source)
                    => last.report[k].outcome \notin Linked
          /\ LET r == place_links(last.before, engine.dry_run, engine.use_title, LastSub,
                                   last.item, SelectSeq(last.scenes, SourcePresent), last.fault)
             IN  r.fs = fs /\ r.raised = last.raised
    /\ last.op = "notfound" => (fs = last.before /\ ~last.raised /\ pc # "failed")

\* the entries that are neither the farm root nor below it
Outside(f) ==
    [p \in {q \in DOMAIN f : q # FarmPath /\ q \notin Under(f, FarmPath)} |-> f[p]]

CleanSweep ==
    /\ last.op = "clean"
    /\ ~engine.dry_run
    /\ ~last.raised
    /\ \A k \in DOMAIN last.report : last.report[k].outcome = "removed"

\* C20: such a run removes exactly the dangling symbolic links below the farm
\* root: none is left for find_dangling_links afterwards, and every other
\* entry (valid link, regular file, directory) is there as before
C20_CleanRemovesExactlyTheDangling ==
    CleanSweep =>
        /\ DOMAIN last.before \ DOMAIN fs = DanglingUnder(last.before)
        /\ \A p \in DOMAIN last.before \ DanglingUnder(last.before) : fs[p] = last.before[p]
        /\ find_dangling_links(fs) = {}
        /\ DanglingUnder(fs) = {}

\* a dangling link inside a sub-directory was removed and a valid link kept
C20_Witness ==
    /\ CleanSweep
    /\ Deep \in DanglingUnder(last.before)
    /\ Deep \notin DOMAIN fs
    /\ ValidLinksUnder(fs) # {}
    /\ PlainUnder(fs) # {}

\* the collision loop of a run that is not a dry run has ended
LoopEnded == last.op = "loop" /\ pc \in {"placed", "failed"} /\ ~engine.dry_run

\* C21: the collision loop ends for every scene on every filesystem, at a path
\* that is absent, dangling or already a link to the scene's source, so that
\* the placement goes on
C21_LoopEndsAtAUsablePath ==
    LoopEnded =>
        /\ pc = "placed"
        /\ \/ ~Exists(fs, last.link)
           \/ IsSymlink(fs, last.link) /\ Readlink(fs, last.link) = last.source

\* the loop never tries more names than the item directory has entries, and
\* it ends where collision_loop says
LoopIsBounded ==
    last.op = "loop" =>
        /\ last.ret <= Cardinality(Children(fs, ItemDir)) + 1
        /\ pc # "idle"
        /\ LET r == collision_loop(fs, engine.dry_run, ItemDir,
                                   get_link_name(engine.use_title, last.scenes[1]),
                                   get_file_extension(last.scenes[1]), last.source,
                                   last.link, last.ret)
           IN  /\ pc = "placed" => (r.path = last.link /\ ~r.raised)
               /\ pc = "failed" => (r.path = last.link /\ r.raised)

====
